---- MODULE Spec2Model ----
(***************************************************************************)
(* Model of cleanup_root.py: cleanup() walks a hardcoded mapping           *)
(* target_dir -> [filenames]; a filename found at the root is removed when *)
(* target_dir/filename already exists and renamed into target_dir          *)
(* otherwise.  The filesystem is the only shared state.  Every             *)
(* os.path.exists / os.remove / os.rename call is one step, so that a      *)
(* second process can be interleaved between a check and the operation.    *)
(***************************************************************************)
EXTENDS Integers, Sequences, FiniteSets, TLC

\* ---------------------------------------------------------------- bounds
\* Number of (target_dir, filename) entries of the mapping that are modelled.
MaxEntries == 3
\* Number of successive invocations of cleanup() that are modelled.
MaxRuns == 2

\* ---------------------------------------------------------------- mapping
\* The mapping literal, abridged: directories and filenames keep the order
\* they have in the source; the 134 filenames are unique across the mapping.
mapping ==
  << << "client/src/components/ui/", << "button.tsx" >> >>,
     << "server/",                   << "auth.ts" >> >>,
     << "server/_core/",             << "index.ts", "logger.ts" >> >>,
     << "server/_core/types/",       << "cookie.d.ts" >> >>,
     << "shared/",                   << "const.ts" >> >> >>

\* mapping.items() then the inner list: the (target_dir, filename) pairs in
\* iteration order.
RECURSIVE Flatten(_)
Flatten(m) ==
  IF m = << >> THEN << >>
  ELSE [i \in 1..Len(m[1][2]) |-> [dir |-> m[1][1], file |-> m[1][2][i]]]
       \o Flatten(Tail(m))

AllEntries == Flatten(mapping)

N == IF MaxEntries < Len(AllEntries) THEN MaxEntries ELSE Len(AllEntries)

items == SubSeq(AllEntries, 1, N)

Files == { items[i].file : i \in 1..N }
Dirs  == { items[i].dir  : i \in 1..N }

\* The target directory a filename is listed under (filenames are unique).
DirOf(f) == items[CHOOSE i \in 1..N : items[i].file = f].dir

\* Mapped directories that lie inside directory d: "server/" is a path prefix
\* of "server/_core/", which is a prefix of "server/_core/types/".
Inside(d) ==
  CASE d = "server/"       -> {"server/_core/", "server/_core/types/"} \cap Dirs
    [] d = "server/_core/" -> {"server/_core/types/"} \cap Dirs
    [] OTHER               -> {}

\* ---------------------------------------------------------------- values
Absent     == "absent"
\* Identity of the file that was at the root / at the target path initially.
RootCopy   == "root copy"
TargetCopy == "target copy"

Min(S) == CHOOSE x \in S : \A y \in S : x <= y

VARIABLES
  root,          \* root[f]: what is at ./f
  target,        \* target[f]: what is at target_dir/f
  dirs,          \* dirs[d]: "missing", "rw" (writable) or "ro" (no write permission)
  locked,        \* root files the process may not unlink (immutable, or not
                 \* its own in a sticky directory)
  pc,            \* position of cleanup(): "for", "target_check", "remove", "rename", "done", "error"
  todo,          \* indexes of the mapping entries the loop has not reached yet
  cur,           \* index of the entry being processed (0 before the first)
  deleted_count,
  moved_count,
  run,           \* number of the current invocation
  prev,          \* how the previous invocation ended: "none", "done", "error"
  root0,         \* root and target when the current invocation started
  target0,
  visits,        \* history: visits[e], times entry e was reached in this run
  calls,         \* history: calls[f], the os.remove / os.rename calls made on f
  delFor,        \* history: increments of deleted_count made for f
  movFor,        \* history: increments of moved_count made for f
  outOfOrder,    \* history: an entry was reached before an earlier one
  vanished,      \* history: another process removed ./f after line 73 found it
  dirRemoved     \* history: another process removed target_dir after line 75

fs    == << root, target, dirs, locked >>
ctl   == << pc, todo, cur, deleted_count, moved_count >>
runs  == << run, prev, root0, target0 >>
hist  == << visits, calls, delFor, movFor, outOfOrder >>
races == << vanished, dirRemoved >>
vars  == << root, target, dirs, locked, pc, todo, cur, deleted_count,
            moved_count, run, prev, root0, target0, visits, calls, delFor,
            movFor, outOfOrder, vanished, dirRemoved >>

\* ---------------------------------------------------------------- os calls
\* os.path.exists(filename)
exists_root_always(f) == TRUE
exists_root(f) == root[f] # Absent

\* os.path.exists(os.path.join(target_dir, filename))
exists_target_always(f) == TRUE
exists_target_swapped(f) == target[f] = Absent
exists_target(f) == target[f] # Absent

\* os.remove(filename) succeeds: the file is there and may be unlinked.
remove_ok(f) == root[f] # Absent /\ f \notin locked

\* os.rename(filename, target_path) succeeds: the file is there and may be
\* unlinked, target_dir exists and is writable.
rename_ok_makedirs(f) == root[f] # Absent /\ f \notin locked /\ dirs[DirOf(f)] # "ro"
rename_ok(f) == root[f] # Absent /\ f \notin locked /\ dirs[DirOf(f)] = "rw"

\* The root directory after os.remove(filename).
RootAfterRemove_kept(f) == root
RootAfterRemove(f) == [root EXCEPT ![f] = Absent]

\* The root directory after os.rename(filename, target_path).
RootAfterRename_copy(f) == root
RootAfterRename(f) == [root EXCEPT ![f] = Absent]

\* The target paths after os.rename(filename, target_path): the root file is
\* now at the target path (rename replaces whatever was there).
TargetAfterRename_lost(f) == target
TargetAfterRename(f) == [target EXCEPT ![f] = root[f]]

\* The root directory after a failed os.remove / os.rename: untouched.
RootAfterFailure_unlinked(f) == [root EXCEPT ![f] = Absent]
RootAfterFailure(f) == root

\* deleted_count += 1, moved_count += 1
Incremented_twice(n) == n + 2
Incremented(n) == n + 1

\* ---------------------------------------------------------------- Init
TypeOK ==
  /\ root \in [Files -> {Absent, RootCopy}]
  /\ target \in [Files -> {Absent, RootCopy, TargetCopy}]
  /\ dirs \in [Dirs -> {"missing", "rw", "ro"}]
  /\ locked \in SUBSET { f \in Files : root[f] # Absent }
  /\ pc \in {"for", "target_check", "remove", "rename", "done", "error"}
  /\ todo \subseteq 1..N
  /\ cur \in 0..N
  /\ deleted_count \in 0..N
  /\ moved_count \in 0..N
  /\ run \in 1..MaxRuns
  /\ prev \in {"none", "done", "error"}

\* The tree cleanup() is started in: any mapped file may or may not be at the
\* root and at its target path; a file at a target path needs its directory,
\* a directory needs the directory it lies in.  Lines 68-69 zero the counters.
Init ==
  /\ root \in [Files -> {Absent, RootCopy}]
  /\ target \in [Files -> {Absent, TargetCopy}]
  /\ dirs \in [Dirs -> {"missing", "rw", "ro"}]
  /\ locked \in SUBSET { f \in Files : root[f] # Absent }
  /\ \A f \in Files : target[f] # Absent => dirs[DirOf(f)] # "missing"
  /\ \A d \in Dirs : \A c \in Inside(d) : dirs[d] = "missing" => dirs[c] = "missing"
  /\ pc = "for"
  /\ todo = 1..N
  /\ cur = 0
  /\ deleted_count = 0
  /\ moved_count = 0
  /\ run = 1
  /\ prev = "none"
  /\ root0 = root
  /\ target0 = target
  /\ visits = [e \in 1..N |-> 0]
  /\ calls = [f \in Files |-> << >>]
  /\ delFor = [f \in Files |-> 0]
  /\ movFor = [f \in Files |-> 0]
  /\ outOfOrder = FALSE
  /\ vanished = FALSE
  /\ dirRemoved = FALSE

\* ---------------------------------------------------------------- cleanup()
\* Lines 71-73: the loop reaches entry e and tests os.path.exists(filename);
\* an absent file is skipped.
Visit(e) ==
  /\ todo' = todo \ {e}
  /\ cur' = e
  /\ visits' = [visits EXCEPT ![e] = @ + 1]
  /\ outOfOrder' = (outOfOrder \/ e # Min(todo))
  /\ pc' = IF exists_root(items[e].file) THEN "target_check" ELSE "for"
  /\ vanished' = FALSE
  /\ dirRemoved' = FALSE
  /\ UNCHANGED << fs, deleted_count, moved_count, runs, calls, delFor, movFor >>

\* The for statements, in the order of the mapping literal.
ForNext ==
  /\ pc = "for"
  /\ todo # {}
  /\ Visit(Min(todo))

\* The for statements when the dictionary is iterated in some other order.
ForNextAnyOrder ==
  /\ pc = "for"
  /\ \E e \in todo : Visit(e)

\* Lines 74-75: os.path.exists(target_path) chooses the branch.
CheckTarget_always_remove ==
  /\ pc = "target_check"
  /\ pc' = "remove"
  /\ UNCHANGED << fs, todo, cur, deleted_count, moved_count, runs, hist, races >>

CheckTarget ==
  /\ pc = "target_check"
  /\ pc' = IF exists_target(items[cur].file) THEN "remove" ELSE "rename"
  /\ UNCHANGED << fs, todo, cur, deleted_count, moved_count, runs, hist, races >>

\* Lines 79-81: os.remove(filename); deleted_count += 1.  A failing
\* os.remove raises, nothing catches it, the run ends.
Remove ==
  LET f == items[cur].file IN
  /\ pc = "remove"
  /\ calls' = [calls EXCEPT ![f] = Append(@, "remove")]
  /\ IF remove_ok(f)
       THEN /\ root' = RootAfterRemove(f)
            /\ deleted_count' = Incremented(deleted_count)
            /\ delFor' = [delFor EXCEPT ![f] = Incremented(@)]
            /\ pc' = "for"
       ELSE /\ root' = RootAfterFailure(f)
            /\ pc' = "error"
            /\ UNCHANGED << deleted_count, delFor >>
  /\ UNCHANGED << target, dirs, locked, todo, cur, moved_count, runs,
                  visits, movFor, outOfOrder, races >>

\* Lines 83-85: os.rename(filename, target_path); moved_count += 1.  A
\* failing os.rename raises, nothing catches it, the run ends.
Rename ==
  LET f == items[cur].file IN
  /\ pc = "rename"
  /\ calls' = [calls EXCEPT ![f] = Append(@, "rename")]
  /\ IF rename_ok(f)
       THEN /\ root' = RootAfterRename(f)
            /\ target' = TargetAfterRename(f)
            /\ moved_count' = Incremented(moved_count)
            /\ movFor' = [movFor EXCEPT ![f] = Incremented(@)]
            /\ pc' = "for"
       ELSE /\ root' = RootAfterFailure(f)
            /\ pc' = "error"
            /\ UNCHANGED << target, moved_count, movFor >>
  /\ UNCHANGED << dirs, locked, todo, cur, deleted_count, runs,
                  visits, delFor, outOfOrder, races >>

\* Line 87: the loop is exhausted, the summary is printed, cleanup() returns.
Finish ==
  /\ pc = "for"
  /\ todo = {}
  /\ pc' = "done"
  /\ UNCHANGED << fs, todo, cur, deleted_count, moved_count, runs, hist, races >>

\* Lines 89-90, 68-69: the script is run again on the tree the previous run left.
Rerun ==
  /\ pc \in {"done", "error"}
  /\ run < MaxRuns
  /\ run' = run + 1
  /\ prev' = pc
  /\ root0' = root
  /\ target0' = target
  /\ pc' = "for"
  /\ todo' = 1..N
  /\ cur' = 0
  /\ deleted_count' = 0
  /\ moved_count' = 0
  /\ visits' = [e \in 1..N |-> 0]
  /\ calls' = [f \in Files |-> << >>]
  /\ delFor' = [f \in Files |-> 0]
  /\ movFor' = [f \in Files |-> 0]
  /\ outOfOrder' = FALSE
  /\ vanished' = FALSE
  /\ dirRemoved' = FALSE
  /\ UNCHANGED fs

\* ---------------------------------------------------------------- other process
\* Another process deletes a mapped file from the root while cleanup() runs.
EnvRemoveRootFile ==
  /\ pc \notin {"done", "error"}
  /\ \E f \in Files :
       /\ root[f] # Absent
       /\ root' = [root EXCEPT ![f] = Absent]
       /\ locked' = locked \ {f}
       /\ vanished' = (vanished \/ (/\ cur # 0
                                    /\ items[cur].file = f
                                    /\ pc \in {"target_check", "remove", "rename"}))
  /\ UNCHANGED << target, dirs, ctl, runs, hist, dirRemoved >>

\* Another process removes a target directory, with all it contains, while
\* cleanup() runs.
EnvRemoveDir ==
  /\ pc \notin {"done", "error"}
  /\ \E d \in Dirs :
       LET gone == {d} \cup Inside(d) IN
       /\ dirs[d] # "missing"
       /\ dirs' = [c \in Dirs |-> IF c \in gone THEN "missing" ELSE dirs[c]]
       /\ target' = [f \in Files |-> IF DirOf(f) \in gone THEN Absent ELSE target[f]]
       /\ dirRemoved' = (dirRemoved \/ (/\ cur # 0
                                        /\ items[cur].dir \in gone
                                        /\ pc \in {"remove", "rename"}))
  /\ UNCHANGED << root, locked, ctl, runs, hist, vanished >>

\* ---------------------------------------------------------------- specifications
\* cleanup() alone, iterating in the order of the mapping literal.
Next == ForNext \/ CheckTarget \/ Remove \/ Rename \/ Finish \/ Rerun

Spec == Init /\ [][Next]_vars

\* cleanup() alone, iterating the mapping in any order.
NextOrder == ForNextAnyOrder \/ CheckTarget \/ Remove \/ Rename \/ Finish \/ Rerun

SpecOrder == Init /\ [][NextOrder]_vars

\* cleanup() with another process removing root files and target directories.
NextConc ==
  \/ ForNext \/ CheckTarget \/ Remove \/ Rename \/ Finish \/ Rerun
  \/ EnvRemoveRootFile \/ EnvRemoveDir

SpecConc == Init /\ [][NextConc]_vars

\* ---------------------------------------------------------------- properties
Present(x) == x # Absent

\* Filenames at the root / at the target path when the current run started.
AtRoot0   == { f \in Files : Present(root0[f]) }
AtTarget0 == { f \in Files : Present(target0[f]) }

\* The entry being processed is past its os.remove / os.rename call.
Settled(e) == visits[e] > 0 /\ (e # cur \/ pc \in {"for", "done", "error"})

\* C1: when cleanup() returns, every file that was at the root and not at its
\* target path is at the target path and not at the root, moved_count was
\* incremented once for it, and moved_count counts exactly those files.
C1_MovedToTarget ==
  pc = "done" =>
    /\ \A f \in AtRoot0 \ AtTarget0 :
         /\ dirs[DirOf(f)] # "missing"
         /\ target[f] = root0[f]
         /\ root[f] = Absent
         /\ movFor[f] = 1
         /\ delFor[f] = 0
    /\ moved_count = Cardinality(AtRoot0 \ AtTarget0)

C1_Witness ==
  /\ pc = "done"
  /\ run = 1
  /\ \E f \in AtRoot0 \ AtTarget0 : target[f] = RootCopy
  /\ \E f \in Files : f \notin AtRoot0 \ AtTarget0

\* C2: when cleanup() returns, every file that was both at the root and at
\* its target path is gone from the root, the target copy is the one that was
\* there before, deleted_count was incremented once for it, and deleted_count
\* counts exactly those files.
C2_DuplicateRemoved ==
  pc = "done" =>
    /\ \A f \in AtRoot0 \cap AtTarget0 :
         /\ root[f] = Absent
         /\ target[f] = target0[f]
         /\ delFor[f] = 1
         /\ movFor[f] = 0
    /\ deleted_count = Cardinality(AtRoot0 \cap AtTarget0)

C2_Witness ==
  /\ pc = "done"
  /\ run = 1
  /\ \E f \in AtRoot0 \cap AtTarget0 : target[f] = TargetCopy /\ delFor[f] = 1
  /\ \E f \in Files : f \notin AtRoot0 \cap AtTarget0

\* C3: a file that was absent from the root when the run started is skipped:
\* at every point of the run it is still absent from the root, its target
\* path is as it was, no os.remove or os.rename was called on it and no
\* counter was incremented for it.
C3_AbsentSkipped ==
  \A f \in Files \ AtRoot0 :
    /\ root[f] = Absent
    /\ target[f] = target0[f]
    /\ calls[f] = << >>
    /\ delFor[f] = 0
    /\ movFor[f] = 0

C3_Witness ==
  /\ pc = "done"
  /\ deleted_count + moved_count > 0
  /\ \E e \in 1..N :
       /\ items[e].file \notin AtRoot0
       /\ items[e].file \in AtTarget0
       /\ visits[e] = 1
  /\ \E e \in 1..N :
       /\ items[e].file \notin AtRoot0
       /\ items[e].file \notin AtTarget0
       /\ visits[e] = 1

\* C4: a run started right after a run that returned without error changes
\* nothing at the root or at a target path, keeps both counters at zero and
\* does not fail.
C4_SecondRunNoOp ==
  (run > 1 /\ prev = "done") =>
    /\ root = root0
    /\ target = target0
    /\ deleted_count = 0
    /\ moved_count = 0
    /\ pc # "error"

C4_Witness ==
  /\ run > 1
  /\ prev = "done"
  /\ pc = "done"
  /\ \E f \in Files : target[f] = RootCopy
  /\ \E f \in Files : target[f] = TargetCopy
  /\ \A e \in 1..N : visits[e] = 1

\* C5: in whatever order the entries are iterated, a run that returns without
\* error ends with deleted_count + moved_count equal to the number of mapped
\* filenames that were at the root when it started.
C5_SumIsFilesAtRoot ==
  pc = "done" => deleted_count + moved_count = Cardinality(AtRoot0)

C5_Witness ==
  /\ pc = "done"
  /\ outOfOrder
  /\ deleted_count > 0
  /\ moved_count > 0
  /\ Cardinality(AtRoot0) < N

\* C6 as written: after a run that returns without error every mapped
\* filename is at its target path and not at the root.
C6_Original ==
  pc = "done" => \A f \in Files : root[f] = Absent /\ Present(target[f])

\* C6 amended: after a run that returns without error no mapped filename is
\* at the root, and a mapped filename is at its target path exactly when it
\* was at the root or at the target path when the run started.
C6_AtTargetOnly ==
  pc = "done" =>
    \A f \in Files :
      /\ root[f] = Absent
      /\ Present(target[f]) <=> (f \in AtRoot0 \cup AtTarget0)

C6_Witness ==
  /\ pc = "done"
  /\ run = 1
  /\ \E f \in Files : f \notin AtRoot0 \cup AtTarget0
  /\ \E f \in AtRoot0 \ AtTarget0 : Present(target[f])
  /\ \E f \in AtRoot0 \cap AtTarget0 : root[f] = Absent

\* The state a failed run is left in: the entry that failed is still at the
\* root, the entries after it in the mapping order were not reached and are
\* as they were, the entries before it keep the delete or move they received.
HaltedAt ==
  LET f == items[cur].file IN
  /\ cur # 0
  /\ todo = { e \in 1..N : e > cur }
  /\ Present(root[f]) /\ root[f] = root0[f] /\ target[f] = target0[f]
  /\ \A e \in todo :
       /\ visits[e] = 0
       /\ calls[items[e].file] = << >>
       /\ root[items[e].file] = root0[items[e].file]
       /\ target[items[e].file] = target0[items[e].file]
  /\ \A e \in 1..(cur - 1) :
       LET g == items[e].file IN
       /\ root[g] = Absent
       /\ g \in AtRoot0 \cap AtTarget0 => target[g] = target0[g] /\ delFor[g] = 1
       /\ g \in AtRoot0 \ AtTarget0 => target[g] = root0[g] /\ movFor[g] = 1
       /\ g \notin AtRoot0 => target[g] = target0[g]

\* C7: a failed os.remove or os.rename (missing target directory, missing
\* permission) halts the run at that entry: the failing file is still at the
\* root, later entries are untouched, earlier entries keep what was applied,
\* and nothing more happens in that run.
C7_HaltsAtFailure ==
  /\ [](pc = "error" => HaltedAt)
  /\ [][pc = "error" => (run' = run + 1 /\ root' = root /\ target' = target)]_vars

C7_Witness ==
  /\ pc = "error"
  /\ run = 1
  /\ deleted_count + moved_count > 0
  /\ \E e \in todo : Present(root[items[e].file])

\* No file is created and no filename is at more places than when the run started.
NothingCreated ==
  \A f \in Files :
    /\ Present(root[f]) => f \in AtRoot0
    /\ Present(target[f]) => f \in AtRoot0 \cup AtTarget0
    /\ (Present(root[f]) /\ Present(target[f])) => f \in AtRoot0 \cap AtTarget0

\* C8 as written: every entry is visited at most once, every file found at
\* the root is deleted (target path present) or moved (target path absent),
\* exactly one of the two, and nothing is created or duplicated.
C8_Original ==
  /\ \A e \in 1..N : visits[e] <= 1
  /\ \A e \in 1..N :
       LET f == items[e].file IN
       (Settled(e) /\ f \in AtRoot0) =>
         /\ delFor[f] + movFor[f] = 1
         /\ delFor[f] = 1 <=> f \in AtTarget0
  /\ NothingCreated

\* C8 amended: every entry is visited at most once; on every file found at
\* the root exactly one call is made, os.remove when the target path exists
\* and os.rename when it does not; the call takes effect and is counted once
\* unless it raises, and then the file stays at the root and the run ends;
\* nothing is created or duplicated.
C8_OneBranchPerFile ==
  /\ \A e \in 1..N : visits[e] <= 1
  /\ \A e \in 1..N :
       LET f == items[e].file IN
       (Settled(e) /\ f \in AtRoot0) =>
         /\ calls[f] = IF f \in AtTarget0 THEN << "remove" >> ELSE << "rename" >>
         /\ IF pc = "error" /\ e = cur
              THEN delFor[f] + movFor[f] = 0 /\ Present(root[f])
              ELSE /\ delFor[f] + movFor[f] = 1
                   /\ delFor[f] = 1 <=> f \in AtTarget0
                   /\ root[f] = Absent
  /\ \A f \in Files : Len(calls[f]) > 0 => f \in AtRoot0
  /\ NothingCreated

C8_Witness ==
  /\ pc = "error"
  /\ calls[items[cur].file] = << "rename" >>
  /\ \E f \in Files : delFor[f] = 1
  /\ \E f \in Files : movFor[f] = 1

C10_NothingLost ==
  \A f \in Files :
    /\ f \in AtRoot0 \cup AtTarget0 => (Present(root[f]) \/ Present(target[f]))
    /\ f \in AtTarget0 => target[f] = target0[f]

C10_Witness ==
  /\ pc = "error"
  /\ run = 1
  /\ deleted_count > 0
  /\ moved_count > 0
  /\ calls[items[cur].file] = << "remove" >>

====
